---- MODULE Spec2Model ----
(***************************************************************************)
(* Model of the metadata registry of mongo-orm: ReflectUtils (per-class    *)
(* metadata kept with reflect-metadata) and the Field decorator.           *)
(*                                                                         *)
(* Values that may be absent (undefined / null) are sequences of length    *)
(* 0 or 1: <<>> is "absent", <<v>> is the value v.                         *)
(***************************************************************************)
EXTENDS Integers, Sequences, FiniteSets, TLC

VARIABLES meta, proto, calls, mapCount, last, steps, applied, obj, inv

vars == <<meta, proto, calls, mapCount, last, steps, applied, obj, inv>>

\* Bound on the number of operations of one run.
MaxSteps == 3

(***************************************************************************)
(* The class hierarchy: class A; class B extends A; class C extends B.     *)
(***************************************************************************)
Classes == {"A", "B", "C"}

ParentOf == [B |-> "A", C |-> "B"]

HasParent(c) == c \in DOMAIN ParentOf

\* The property names the explored calls declare.
PropertyNames == {"x", "y"}

CollectionNames == {"", "users"}

\* enum EMetaDataKey
EMetaDataKey ==
  {"AreFieldsApplied", "Collection", "Fields", "ObjectType", "UnpackedFields"}

Null == <<>>

\* Option objects handed to Field(); <<>> is Field() without an argument.
FieldOptions == {<<>>, <<[id |-> TRUE]>>}

\* A descriptor handed to addOwnField by a caller other than Field: such a
\* caller can name the isPrimary attribute addOwnField reads.
RawDescriptor(p, primary) ==
  [classPropertyName |-> p, dbPropertyName |-> p, defaultValue |-> "undefined",
   isNullable |-> TRUE, isIdentifier |-> primary, type |-> "reflected",
   isPrimary |-> primary]

DirectDescriptors == {RawDescriptor(p, TRUE) : p \in PropertyNames}

Min(S) == CHOOSE i \in S : \A j \in S : i <= j

RECURSIVE Concat(_)
Concat(seqs) ==
  IF seqs = <<>> THEN <<>> ELSE Head(seqs) \o Concat(Tail(seqs))

(***************************************************************************)
(* Metadata store                                                          *)
(***************************************************************************)
\* Reflect.getMetadata(key, target): the value defined on target or, when
\* target has none of its own, on the next object of its prototype chain
\* (for a class constructor, the class it extends).
RECURSIVE Reflect_getMetadata(_, _, _)
Reflect_getMetadata(m, key, target) ==
  IF m[target][key] # <<>> THEN m[target][key]
  ELSE IF HasParent(target) THEN Reflect_getMetadata(m, key, ParentOf[target])
  ELSE <<>>

\* Reflect.defineMetadata(key, value, target)
Reflect_defineMetadata(m, key, value, target) ==
  [m EXCEPT ![target][key] = <<value>>]

\* JavaScript falsiness of the values each key can hold.
IsFalsy(key, v) ==
  CASE key = "AreFieldsApplied" -> v = FALSE
    [] key = "Collection" -> v = ""
    [] OTHER -> FALSE

\* ReflectUtils.get: Reflect.getMetadata(key, target) || null
\* value || null
OrNull(key, v) == IF v = <<>> \/ IsFalsy(key, v[1]) THEN Null ELSE v

get(m, key, target) == OrNull(key, Reflect_getMetadata(m, key, target))

\* ReflectUtils.set
set(m, key, value, target) == Reflect_defineMetadata(m, key, value, target)

(***************************************************************************)
(* Hierarchy walker                                                        *)
(***************************************************************************)
\* The classes whileHasParentConstructor(target, visitor) visits, in order.
RECURSIVE whileHasParentConstructor(_)
whileHasParentConstructor(target) ==
  <<target>> \o (IF HasParent(target)
                   THEN whileHasParentConstructor(ParentOf[target])
                   ELSE <<>>)

(***************************************************************************)
(* Field registry                                                          *)
(***************************************************************************)
\* value || []
OrEmpty(r) == IF r = Null THEN <<>> ELSE r[1]

getOwnFields(m, target) == OrEmpty(get(m, "Fields", target))

\* A variant of getFields that looks at the class alone.
getFields_OwnOnly(m, target) == getOwnFields(m, target)

getFields(m, target) ==
  LET ctrs == whileHasParentConstructor(target)
  IN Concat([i \in 1..Len(ctrs) |-> getOwnFields(m, ctrs[i])])

\* f.isPrimary read from a raw descriptor: undefined (falsy) when the object
\* has no such property.
ReadIsPrimary(f) == "isPrimary" \in DOMAIN f /\ f.isPrimary

\* The body of the forEach callback of addOwnField: the error it throws for
\* the stored descriptor f, or "none".
FieldConflict(f, fieldMeta) ==
  IF ReadIsPrimary(f) /\ ReadIsPrimary(fieldMeta)
    THEN "PrimaryKeyAlreadyDefined"
  ELSE IF f.classPropertyName = fieldMeta.classPropertyName
    THEN "PropertyAlreadyDefined"
  ELSE "none"

\* A variant of addOwnField that also drops the class's resolved-field cache
\* when it stores the descriptor.
addOwnField_DropsCache(m, target, fieldMeta) ==
  LET fields == getFields(m, target)
      bad == {i \in 1..Len(fields) : FieldConflict(fields[i], fieldMeta) # "none"}
  IN IF bad # {}
       THEN [meta |-> m,
             err |-> FieldConflict(fields[Min(bad)], fieldMeta),
             info |-> <<fields[Min(bad)], fieldMeta>>]
       ELSE [meta |-> [set(m, "Fields",
                           getOwnFields(m, target) \o <<fieldMeta>>, target)
                         EXCEPT ![target]["UnpackedFields"] = <<>>],
             err |-> "none",
             info |-> <<>>]

\* A variant of addOwnField that stores the descriptor before it looks for
\* conflicts.
addOwnField_StoresFirst(m, target, fieldMeta) ==
  LET fields == getFields(m, target)
      bad == {i \in 1..Len(fields) : FieldConflict(fields[i], fieldMeta) # "none"}
      stored == set(m, "Fields", getOwnFields(m, target) \o <<fieldMeta>>,
                    target)
  IN IF bad # {}
       THEN [meta |-> stored,
             err |-> FieldConflict(fields[Min(bad)], fieldMeta),
             info |-> <<fields[Min(bad)], fieldMeta>>]
       ELSE [meta |-> stored, err |-> "none", info |-> <<>>]

addOwnField(m, target, fieldMeta) ==
  LET fields == getFields(m, target)
      bad == {i \in 1..Len(fields) : FieldConflict(fields[i], fieldMeta) # "none"}
  IN IF bad # {}
       THEN [meta |-> m,
             err |-> FieldConflict(fields[Min(bad)], fieldMeta),
             info |-> <<fields[Min(bad)], fieldMeta>>]
       ELSE [meta |-> set(m, "Fields",
                          getOwnFields(m, target) \o <<fieldMeta>>, target),
             err |-> "none",
             info |-> <<>>]

\* A variant of FieldDescriptor whose options never override the defaults
\* of dbPropertyName and isNullable.
FieldDescriptor_DefaultsOnly(typeOrOptions, propertyKey) ==
  [classPropertyName |-> propertyKey, dbPropertyName |-> propertyKey,
   defaultValue |-> IF typeOrOptions # <<>>
                       /\ "defaultValue" \in DOMAIN typeOrOptions[1]
                      THEN typeOrOptions[1].defaultValue ELSE "undefined",
   isNullable |-> TRUE,
   isIdentifier |-> typeOrOptions # <<>> /\ "id" \in DOMAIN typeOrOptions[1]
                      /\ typeOrOptions[1].id,
   type |-> "reflected"]

\* The descriptor the Field decorator builds for property propertyKey.
FieldDescriptor(typeOrOptions, propertyKey) ==
  IF typeOrOptions = <<>>
    THEN [classPropertyName |-> propertyKey, dbPropertyName |-> propertyKey,
          defaultValue |-> "undefined", isNullable |-> TRUE,
          isIdentifier |-> FALSE, type |-> "reflected"]
    ELSE LET o == typeOrOptions[1]
             has(k) == k \in DOMAIN o
         IN [classPropertyName |-> propertyKey,
             dbPropertyName |-> IF has("name") THEN o.name ELSE propertyKey,
             defaultValue |-> IF has("defaultValue") THEN o.defaultValue
                              ELSE "undefined",
             isNullable |-> IF has("nullable") THEN o.nullable ELSE TRUE,
             isIdentifier |-> IF has("id") THEN o.id ELSE FALSE,
             type |-> IF has("type") THEN o.type ELSE "reflected"]

\* Field(typeOrOptions)(Model.prototype, propertyKey)
Field(m, Model, typeOrOptions, propertyKey) ==
  addOwnField(m, Model, FieldDescriptor(typeOrOptions, propertyKey))

(***************************************************************************)
(* Field resolver                                                          *)
(***************************************************************************)
unpackField(f) ==
  [classPropertyName |-> f.classPropertyName,
   dbPropertyName |-> f.dbPropertyName,
   defaultValue |-> f.defaultValue,
   isNullable |-> f.isNullable,
   type |-> f.type,
   isPrimary |-> f.isIdentifier]

\* A variant of getUnpackedOwnFields that never stores what it computed.
getUnpackedOwnFields_NoCacheWrite(m, target) ==
  LET unpacked == get(m, "UnpackedFields", target)
  IN IF unpacked = Null
       THEN LET own == getOwnFields(m, target)
                u == [i \in 1..Len(own) |-> unpackField(own[i])]
            IN [meta |-> m, ret |-> u, mapped |-> TRUE]
       ELSE [meta |-> m, ret |-> unpacked[1], mapped |-> FALSE]

\* A variant of getUnpackedOwnFields that also stores the list it read under
\* EMetaDataKey.Fields.
getUnpackedOwnFields_WritesFields(m, target) ==
  LET unpacked == get(m, "UnpackedFields", target)
  IN IF unpacked = Null
       THEN LET own == getOwnFields(m, target)
                u == [i \in 1..Len(own) |-> unpackField(own[i])]
            IN [meta |-> set(set(m, "Fields", own, target),
                             "UnpackedFields", u, target),
                ret |-> u, mapped |-> TRUE]
       ELSE [meta |-> m, ret |-> unpacked[1], mapped |-> FALSE]

\* The result also tells whether the mapping through unpackField was run.
getUnpackedOwnFields(m, target) ==
  LET unpacked == get(m, "UnpackedFields", target)
  IN IF unpacked = Null
       THEN LET own == getOwnFields(m, target)
                u == [i \in 1..Len(own) |-> unpackField(own[i])]
            IN [meta |-> set(m, "UnpackedFields", u, target),
                ret |-> u, mapped |-> TRUE]
       ELSE [meta |-> m, ret |-> unpacked[1], mapped |-> FALSE]

\* The walk of getUnpackedFields over the classes ctrs, carrying the store,
\* the fields pushed so far and the classes whose mapping was run.
RECURSIVE UnpackWalk(_, _, _, _)
UnpackWalk(m, ctrs, fields, mapped) ==
  IF ctrs = <<>> THEN [meta |-> m, ret |-> fields, mapped |-> mapped]
  ELSE LET r == getUnpackedOwnFields(m, Head(ctrs))
       IN UnpackWalk(r.meta, Tail(ctrs), fields \o r.ret,
                     IF r.mapped THEN mapped \o <<Head(ctrs)>> ELSE mapped)

getUnpackedFields(m, target) ==
  UnpackWalk(m, whileHasParentConstructor(target), <<>>, <<>>)

(***************************************************************************)
(* Accessor installer                                                      *)
(***************************************************************************)
\* The property descriptor applyFields hands to Object.defineProperty: the
\* attributes it names.
AccessorDescriptor(f) ==
  [name |-> f.classPropertyName, dbPropertyName |-> f.dbPropertyName,
   attributes |-> {"get", "set", "writable", "enumerable", "configurable"},
   configurable |-> FALSE]

\* Object.defineProperty(obj, name, desc) on an object whose own properties
\* are props: a descriptor naming an accessor together with value or
\* writable is invalid, and a non-configurable property cannot be redefined.
Object_defineProperty(props, desc) ==
  IF /\ desc.attributes \cap {"get", "set"} # {}
     /\ desc.attributes \cap {"value", "writable"} # {}
    THEN [props |-> props, err |-> "TypeError"]
  ELSE IF \E q \in props : q.name = desc.name
    THEN [props |-> props, err |-> "TypeError"]
  ELSE [props |-> props \cup {[name |-> desc.name,
                               dbPropertyName |-> desc.dbPropertyName]},
        err |-> "none"]

\* fields.forEach(f => Object.defineProperty(target.prototype, ...)): stops
\* at the first definition that throws.
RECURSIVE DefineAll(_, _, _)
DefineAll(props, fields, n) ==
  IF fields = <<>> THEN [props |-> props, err |-> "none", defined |-> n]
  ELSE LET r == Object_defineProperty(props, AccessorDescriptor(Head(fields)))
       IN IF r.err # "none"
            THEN [props |-> r.props, err |-> r.err, defined |-> n]
            ELSE DefineAll(r.props, Tail(fields), n + 1)

applyFields(m, pr, target) ==
  LET isAlreadyApplied == get(m, "AreFieldsApplied", target) = <<TRUE>>
  IN IF isAlreadyApplied
       THEN [meta |-> m, proto |-> pr, err |-> "none", defined |-> 0,
             mapped |-> <<>>]
       ELSE LET u == getUnpackedFields(m, target)
                d == DefineAll(pr[target], u.ret, 0)
            IN [meta |-> IF d.err = "none"
                           THEN set(u.meta, "AreFieldsApplied", TRUE, target)
                           ELSE u.meta,
                proto |-> [pr EXCEPT ![target] = d.props],
                err |-> d.err, defined |-> d.defined, mapped |-> u.mapped]

(***************************************************************************)
(* Model introspector                                                      *)
(***************************************************************************)
collectModelInformation(m, target) ==
  LET collection == get(m, "Collection", target)
      u == getUnpackedFields(m, target)
      fields == u.ret
      prim == {i \in 1..Len(fields) : fields[i].isPrimary}
      second == Min(prim \ {Min(prim)})
  IN IF collection = Null
       THEN [meta |-> m, err |-> "ModelNotFound", info |-> <<>>,
             ret |-> <<>>, mapped |-> <<>>]
     ELSE IF Len(fields) = 0
       THEN [meta |-> u.meta, err |-> "EmptyFieldsList", info |-> <<>>,
             ret |-> <<>>, mapped |-> u.mapped]
     ELSE IF Cardinality(prim) >= 2
       THEN [meta |-> u.meta, err |-> "PrimaryKeyAlreadyDefined",
             info |-> <<fields[Min(prim)], fields[second]>>,
             ret |-> <<>>, mapped |-> u.mapped]
     ELSE IF prim = {}
       THEN [meta |-> u.meta, err |-> "PrimaryKeyNotDefined", info |-> <<>>,
             ret |-> <<>>, mapped |-> u.mapped]
     ELSE [meta |-> u.meta, err |-> "none", info |-> <<>>,
           ret |-> <<[collection |-> collection[1],
                      primaryField |-> fields[Min(prim)],
                      fields |-> fields]>>,
           mapped |-> u.mapped]

defineModel(m, target, collection) ==
  set(set(m, "Collection", collection, target), "ObjectType", "model", target)

defineDataMapper(m, target) == set(m, "ObjectType", "data-mapper", target)

isModel(m, target) == get(m, "ObjectType", target) = <<"model">>

isDataMapper(m, target) == get(m, "ObjectType", target) = <<"data-mapper">>

(***************************************************************************)
(* The state machine: any sequence of calls of the public operations.      *)
(*   meta      the metadata defined on each class, per key                 *)
(*   proto     the own properties of each class's prototype                *)
(*   calls     per class, the descriptors handed to addOwnField so far, in *)
(*             call order, each with the way its call ended                *)
(*   mapCount  per class, how often its raw list was mapped to resolved    *)
(*   last      the last operation, its arguments and its outcome           *)
(*   steps     the number of registry calls made                           *)
(*   applied   the classes on which a call of applyFields has returned     *)
(*   obj       an instance of one of the classes (<<>> while none exists)  *)
(*   inv       the invocations of applyFields that are followed statement  *)
(*             by statement                                                *)
(***************************************************************************)
Count(s, c) == Cardinality({i \in 1..Len(s) : s[i] = c})

Record(op, target, arg, err, info, ret) ==
  [op |-> op, target |-> target, arg |-> arg, err |-> err, info |-> info,
   ret |-> ret,
   repeat |-> (last.op = op /\ last.target = target /\ last.arg = arg)]

\* The two invocations of applyFields that are followed statement by
\* statement.
Invocations == {1, 2}

\* An invocation that has not been entered.
Idle == [pc |-> "idle", target |-> "A", fields |-> <<>>, overlaps |-> FALSE]

\* No call of applyFields has returned, no instance exists and no invocation
\* is under way.
NothingUsed ==
  /\ applied = {}
  /\ obj = <<>>
  /\ inv = [i \in Invocations |-> Idle]

Init ==
  /\ meta = [c \in Classes |-> [k \in EMetaDataKey |-> <<>>]]
  /\ proto = [c \in Classes |-> {}]
  /\ calls = [c \in Classes |-> <<>>]
  /\ mapCount = [c \in Classes |-> 0]
  /\ last = [op |-> "init", target |-> "A", arg |-> <<>>, err |-> "none",
             info |-> <<>>, ret |-> <<>>, repeat |-> FALSE]
  /\ steps = 0
  /\ NothingUsed

\* A call of a registry operation made as a whole: it is counted, and it
\* touches no instance and no invocation followed statement by statement.
Tick == steps < MaxSteps /\ steps' = steps + 1 /\ UNCHANGED <<obj, inv>>

Mapped(seq) == [c \in Classes |-> mapCount[c] + Count(seq, c)]

Declare(op, target, fieldMeta, r) ==
  /\ meta' = r.meta
  /\ calls' = [calls EXCEPT ![target] =
                 Append(@, [field |-> fieldMeta, err |-> r.err])]
  /\ last' = Record(op, target, <<fieldMeta>>, r.err, r.info, <<>>)
  /\ UNCHANGED <<proto, mapCount, applied>>

DoAddOwnField(target, fieldMeta) ==
  /\ Tick
  /\ Declare("addOwnField", target, fieldMeta,
             addOwnField(meta, target, fieldMeta))

DoField(Model, typeOrOptions, propertyKey) ==
  /\ Tick
  /\ Declare("Field", Model, FieldDescriptor(typeOrOptions, propertyKey),
             Field(meta, Model, typeOrOptions, propertyKey))

DoGetUnpackedOwnFields(target) ==
  /\ Tick
  /\ \E r \in {getUnpackedOwnFields(meta, target)} :
        /\ meta' = r.meta
        /\ mapCount' = Mapped(IF r.mapped THEN <<target>> ELSE <<>>)
        /\ last' = Record("getUnpackedOwnFields", target, <<>>, "none", <<>>,
                          r.ret)
  /\ UNCHANGED <<proto, calls, applied>>

DoGetUnpackedFields(target) ==
  /\ Tick
  /\ \E r \in {getUnpackedFields(meta, target)} :
        /\ meta' = r.meta
        /\ mapCount' = Mapped(r.mapped)
        /\ last' = Record("getUnpackedFields", target, <<>>, "none", <<>>,
                          r.ret)
  /\ UNCHANGED <<proto, calls, applied>>

DoApplyFields(target) ==
  /\ Tick
  /\ \E r \in {applyFields(meta, proto, target)} :
        /\ meta' = r.meta
        /\ proto' = r.proto
        /\ mapCount' = Mapped(r.mapped)
        /\ last' = Record("applyFields", target, <<>>, r.err, <<>>,
                          <<r.defined>>)
        /\ applied' = IF r.err = "none" THEN applied \cup {target}
                       ELSE applied
  /\ UNCHANGED calls

DoCollectModelInformation(target) ==
  /\ Tick
  /\ \E r \in {collectModelInformation(meta, target)} :
        /\ meta' = r.meta
        /\ mapCount' = Mapped(r.mapped)
        /\ last' = Record("collectModelInformation", target, <<>>, r.err,
                          r.info, r.ret)
  /\ UNCHANGED <<proto, calls, applied>>

DoDefineModel(target, collection) ==
  /\ Tick
  /\ meta' = defineModel(meta, target, collection)
  /\ last' = Record("defineModel", target, <<collection>>, "none", <<>>, <<>>)
  /\ UNCHANGED <<proto, calls, mapCount, applied>>

DoDefineDataMapper(target) ==
  /\ Tick
  /\ meta' = defineDataMapper(meta, target)
  /\ last' = Record("defineDataMapper", target, <<>>, "none", <<>>, <<>>)
  /\ UNCHANGED <<proto, calls, mapCount, applied>>

Next ==
  \/ \E c \in Classes, d \in DirectDescriptors : DoAddOwnField(c, d)
  \/ \E c \in Classes, o \in FieldOptions, p \in PropertyNames : DoField(c, o, p)
  \/ \E c \in Classes : DoGetUnpackedOwnFields(c)
  \/ \E c \in Classes : DoGetUnpackedFields(c)
  \/ \E c \in Classes : DoApplyFields(c)
  \/ \E c \in Classes : DoCollectModelInformation(c)
  \/ \E c \in Classes, n \in CollectionNames : DoDefineModel(c, n)
  \/ \E c \in Classes : DoDefineDataMapper(c)

Spec == Init /\ [][Next]_vars

(***************************************************************************)
(* The same machine started after a module defining                        *)
(*   class A { @Field({id: true}) x }                                      *)
(*   class B extends A { @Field() y }                                      *)
(*   class C extends B { @Field({id: true}) z }                            *)
(* has been loaded: its decorators have run, in this order.                *)
(***************************************************************************)
LoadedProgram ==
  << <<"A", <<[id |-> TRUE]>>, "x">>,
     <<"B", <<>>, "y">>,
     <<"C", <<[id |-> TRUE]>>, "z">> >>

RECURSIVE Load(_, _, _)
Load(m, cs, decls) ==
  IF decls = <<>> THEN [meta |-> m, calls |-> cs]
  ELSE LET d == Head(decls)
           r == Field(m, d[1], d[2], d[3])
       IN Load(r.meta,
               [cs EXCEPT ![d[1]] =
                  Append(@, [field |-> FieldDescriptor(d[2], d[3]),
                             err |-> r.err])],
               Tail(decls))

InitLoaded ==
  LET l == Load([c \in Classes |-> [k \in EMetaDataKey |-> <<>>]],
                [c \in Classes |-> <<>>], LoadedProgram)
  IN /\ meta = l.meta
     /\ calls = l.calls
     /\ proto = [c \in Classes |-> {}]
     /\ mapCount = [c \in Classes |-> 0]
     /\ last = [op |-> "init", target |-> "A", arg |-> <<>>, err |-> "none",
                info |-> <<>>, ret |-> <<>>, repeat |-> FALSE]
     /\ steps = 0
     /\ NothingUsed

SpecLoaded == InitLoaded /\ [][Next]_vars

(***************************************************************************)
(* Instances: property reads and writes on an object of one of the         *)
(* classes, after a module has been loaded.                                *)
(***************************************************************************)
\* A module defining
\*   class A {}
\*   class B extends A { @Field({name: 'doc_y'}) y }
\*   class C extends B { @Field({id: true}) x }
MappedProgram ==
  << <<"B", <<[name |-> "doc_y"]>>, "y">>,
     <<"C", <<[id |-> TRUE]>>, "x">> >>

\* The modules a run starts from; <<>> declares no field at all.
Programs == {<<>>, LoadedProgram, MappedProgram}

\* The values written to instance properties.
Values == {1, 2}

\* The keys an instance or its internal document can hold.
Keys == PropertyNames \cup {"z", "doc_y"}

\* new C(): no own property, an empty internal document.
NewObject(c) ==
  [cls |-> c, own |-> [k \in Keys |-> <<>>], doc |-> [k \in Keys |-> <<>>]]

\* The accessor named p found on the prototype chain of class c (C.prototype,
\* then the prototype of the class it extends, ...); <<>> when there is none.
RECURSIVE FindAccessor(_, _, _)
FindAccessor(pr, c, p) ==
  IF \E q \in pr[c] : q.name = p
    THEN <<CHOOSE q \in pr[c] : q.name = p>>
  ELSE IF HasParent(c) THEN FindAccessor(pr, ParentOf[c], p)
  ELSE <<>>

\* o[p] = v: an own property of the instance is assigned; otherwise the
\* setter of an inherited accessor runs, this.__document[dbPropertyName] =
\* value; with neither, the assignment creates an own data property.
WriteProperty(pr, o, p, v) ==
  LET a == FindAccessor(pr, o.cls, p)
  IN IF o.own[p] # <<>> \/ a = <<>>
       THEN [o EXCEPT !.own[p] = <<v>>]
       ELSE [o EXCEPT !.doc[a[1].dbPropertyName] = <<v>>]

\* o[p]: the own property, else the getter of an inherited accessor,
\* this.__document[dbPropertyName], else undefined (<<>>).
ReadProperty(pr, o, p) ==
  LET a == FindAccessor(pr, o.cls, p)
  IN IF o.own[p] # <<>> THEN o.own[p]
     ELSE IF a # <<>> THEN o.doc[a[1].dbPropertyName]
     ELSE <<>>

\* A step on the instance: no registry call is made.
InstanceStep ==
  UNCHANGED <<meta, proto, calls, mapCount, steps, applied, inv>>

DoNew(c) ==
  /\ obj' = <<NewObject(c)>>
  /\ last' = Record("new", c, <<>>, "none", <<>>, <<>>)
  /\ InstanceStep

DoWrite(p, v) ==
  /\ obj # <<>>
  /\ obj' = <<WriteProperty(proto, obj[1], p, v)>>
  /\ last' = Record("write", obj[1].cls, <<p, v>>, "none", <<>>, <<>>)
  /\ InstanceStep

DoRead(p) ==
  /\ obj # <<>>
  /\ obj' = obj
  /\ last' = Record("read", obj[1].cls, <<p>>, "none", <<>>,
                    ReadProperty(proto, obj[1], p))
  /\ InstanceStep

\* The state after one of the modules has been loaded.
InitProgram ==
  \E program \in Programs :
    LET l == Load([c \in Classes |-> [k \in EMetaDataKey |-> <<>>]],
                  [c \in Classes |-> <<>>], program)
    IN /\ meta = l.meta
       /\ calls = l.calls
       /\ proto = [c \in Classes |-> {}]
       /\ mapCount = [c \in Classes |-> 0]
       /\ last = [op |-> "init", target |-> "A", arg |-> <<>>, err |-> "none",
                  info |-> <<>>, ret |-> <<>>, repeat |-> FALSE]
       /\ steps = 0
       /\ NothingUsed

NextInstances ==
  \/ \E c \in Classes : DoApplyFields(c)
  \/ \E c \in Classes : DoNew(c)
  \/ \E p \in PropertyNames, v \in Values : DoWrite(p, v)
  \/ \E p \in PropertyNames : DoRead(p)

SpecInstances == InitProgram /\ [][NextInstances]_vars

(***************************************************************************)
(* applyFields followed statement by statement, for two invocations: each  *)
(* is at "idle" (not entered), at "define" (past the flag test, with the   *)
(* fields whose accessors are still to be defined), at "done" (returned)   *)
(* or at "threw".                                                          *)
(***************************************************************************)
\* A statement of an invocation: no call is counted, no instance touched.
Statement == UNCHANGED <<calls, last, steps, obj>>

\* Lines 154-159: the flag is read; the invocation returns when it is set
\* and fetches the resolved fields otherwise.
ApplyEnter(i, target) ==
  /\ inv[i].pc = "idle"
  /\ LET isAlreadyApplied == get(meta, "AreFieldsApplied", target) = <<TRUE>>
         u == getUnpackedFields(meta, target)
         busy == \E j \in Invocations \ {i} :
                   inv[j].pc = "define" /\ inv[j].target = target
     IN IF isAlreadyApplied
          THEN /\ inv' = [inv EXCEPT ![i] = [pc |-> "done", target |-> target,
                                             fields |-> <<>>,
                                             overlaps |-> FALSE]]
               /\ applied' = applied \cup {target}
               /\ UNCHANGED <<meta, mapCount>>
          ELSE /\ inv' = [inv EXCEPT ![i] = [pc |-> "define",
                                             target |-> target,
                                             fields |-> u.ret,
                                             overlaps |-> busy]]
               /\ meta' = u.meta
               /\ mapCount' = Mapped(u.mapped)
               /\ UNCHANGED applied
  /\ UNCHANGED proto
  /\ Statement

\* Lines 161-175, one turn of the forEach: the accessor of the next field is
\* defined on the prototype, or the definition throws.
ApplyDefine(i) ==
  /\ inv[i].pc = "define"
  /\ inv[i].fields # <<>>
  /\ LET r == Object_defineProperty(proto[inv[i].target],
                                    AccessorDescriptor(Head(inv[i].fields)))
     IN IF r.err # "none"
          THEN /\ inv' = [inv EXCEPT ![i].pc = "threw"]
               /\ UNCHANGED proto
          ELSE /\ inv' = [inv EXCEPT ![i].fields = Tail(@)]
               /\ proto' = [proto EXCEPT ![inv[i].target] = r.props]
  /\ UNCHANGED <<meta, mapCount, applied>>
  /\ Statement

\* Line 176: the flag is set and the invocation returns.
ApplyFlag(i) ==
  /\ inv[i].pc = "define"
  /\ inv[i].fields = <<>>
  /\ meta' = set(meta, "AreFieldsApplied", TRUE, inv[i].target)
  /\ inv' = [inv EXCEPT ![i].pc = "done"]
  /\ applied' = applied \cup {inv[i].target}
  /\ UNCHANGED <<proto, mapCount>>
  /\ Statement

NextInterleaved ==
  \/ \E i \in Invocations, c \in Classes : ApplyEnter(i, c)
  \/ \E i \in Invocations : ApplyDefine(i)
  \/ \E i \in Invocations : ApplyFlag(i)

SpecInterleaved == InitProgram /\ [][NextInterleaved]_vars

(***************************************************************************)
(* The Field decorator applied once to a drawn option object, property and *)
(* class.                                                                  *)
(***************************************************************************)
\* An option given one of the values of S, or left out (<<>>).
Given(S) == {<<>>} \cup {<<v>> : v \in S}

\* The option object with exactly the options that are given.
OptionObject(name, nullable, id, defaultValue, type) ==
  LET given == [name |-> name, nullable |-> nullable, id |-> id,
                defaultValue |-> defaultValue, type |-> type]
  IN [k \in {j \in DOMAIN given : given[j] # <<>>} |-> given[k][1]]

\* Every option object over the recognised options, each option given or
\* left out, and <<>> for Field() without an argument.
AllFieldOptions ==
  {<<>>} \cup
  {<<OptionObject(n, nu, i, dv, t)>> :
     n \in Given({"doc_y"}), nu \in Given({TRUE, FALSE}),
     i \in Given({TRUE, FALSE}), dv \in Given({"anon"}),
     t \in Given({"String"})}

InitField ==
  \E program \in Programs, c \in Classes, o \in AllFieldOptions,
     p \in PropertyNames :
    LET l == Load([d \in Classes |-> [k \in EMetaDataKey |-> <<>>]],
                  [d \in Classes |-> <<>>], program)
    IN /\ meta = l.meta
       /\ calls = l.calls
       /\ proto = [d \in Classes |-> {}]
       /\ mapCount = [d \in Classes |-> 0]
       /\ last = [op |-> "draw", target |-> c, arg |-> <<o, p>>,
                  err |-> "none", info |-> <<>>, ret |-> <<>>,
                  repeat |-> FALSE]
       /\ steps = 0
       /\ NothingUsed

\* The drawn decorator runs.
DoDrawnField ==
  /\ last.op = "draw"
  /\ DoField(last.target, last.arg[1], last.arg[2])

NextField == DoDrawnField

SpecField == InitField /\ [][NextField]_vars

(***************************************************************************)
(* Vocabulary of the properties                                            *)
(***************************************************************************)
\* The value defined on class c itself under key k (<<>> when none).
OwnValue(c, k) == meta[c][k]

\* The raw field list defined on class c itself.
OwnStored(c) == IF meta[c]["Fields"] = <<>> THEN <<>> ELSE meta[c]["Fields"][1]

\* The proper ancestors of class c.
Ancestors(c) ==
  LET ctrs == whileHasParentConstructor(c)
  IN {ctrs[i] : i \in 2..Len(ctrs)}

\* The descriptors class c declared: those of its addOwnField calls that
\* returned, in call order.
Declared(c) ==
  LET ok == SelectSeq(calls[c], LAMBDA e : e.err = "none")
  IN [i \in 1..Len(ok) |-> ok[i].field]

\* The descriptors declared by c and its ancestors, most derived class first.
DeclaredChain(c) ==
  LET ctrs == whileHasParentConstructor(c)
  IN Concat([i \in 1..Len(ctrs) |-> Declared(ctrs[i])])

Resolved(fs) == [i \in 1..Len(fs) |-> unpackField(fs[i])]

Primaries(fs) == {i \in 1..Len(fs) : fs[i].isPrimary}

DeclarationOps == {"addOwnField", "Field"}

\* The step is a call of addOwnField, directly or through Field.
DeclStep == steps' = steps + 1 /\ last'.op \in DeclarationOps

CollectStep == steps' = steps + 1 /\ last'.op = "collectModelInformation"

ApplyStep == steps' = steps + 1 /\ last'.op = "applyFields"

(***************************************************************************)
(* C1                                                                      *)
(***************************************************************************)
\* C1: for the addOwnField calls made on one class, a call whose descriptor
\* shares classPropertyName with the descriptor of an earlier call fails
\* (with PropertyAlreadyDefined; the formula also accepts
\* PrimaryKeyAlreadyDefined, which the primary-key check raises first when
\* both descriptors carry isPrimary), and when calls were made, every one
\* returned and no two descriptors share a name, getOwnFields of the class
\* is the sequence of descriptors in call order.
C1_OwnListIsCallSequence ==
  \A c \in Classes :
    LET cs == calls[c]
        Shares(i, j) ==
          cs[i].field.classPropertyName = cs[j].field.classPropertyName
    IN /\ \A j \in 1..Len(cs) :
            (\E i \in 1..(j - 1) : Shares(i, j))
              => cs[j].err \in {"PropertyAlreadyDefined",
                                "PrimaryKeyAlreadyDefined"}
       /\ (/\ cs # <<>>
           /\ \A i \in 1..Len(cs) : cs[i].err = "none"
           /\ \A i, j \in 1..Len(cs) : i < j => ~Shares(i, j))
            => getOwnFields(meta, c) = [i \in 1..Len(cs) |-> cs[i].field]

(***************************************************************************)
(* C2                                                                      *)
(***************************************************************************)
\* C2: at most one descriptor a class declared and got stored is marked as
\* the primary key (id = true): a declaration with id = true made on a class
\* that already declared a primary-key field fails (with
\* PrimaryKeyAlreadyDefined; the formula also accepts PropertyAlreadyDefined,
\* raised when the two fields share their name as well) and is not stored.
C2_SinglePrimaryPerClass ==
  \A c \in Classes :
    LET cs == calls[c]
        StoredId(i) == cs[i].err = "none" /\ cs[i].field.isIdentifier
    IN /\ Cardinality({i \in 1..Len(cs) : StoredId(i)}) <= 1
       /\ \A j \in 1..Len(cs) :
            (cs[j].field.isIdentifier /\ \E i \in 1..(j - 1) : StoredId(i))
              => cs[j].err \in {"PrimaryKeyAlreadyDefined",
                                "PropertyAlreadyDefined"}

(***************************************************************************)
(* C3                                                                      *)
(***************************************************************************)
\* Descriptor f stands in the way of descriptor d.
Clash(f, d) ==
  \/ f.classPropertyName = d.classPropertyName
  \/ (f.isIdentifier \/ ReadIsPrimary(f)) /\ (d.isIdentifier \/ ReadIsPrimary(d))

\* C3 (as claimed): addOwnField(C, d) succeeds whenever no descriptor stored
\* on C itself shares d's name or is primary together with d, whatever the
\* ancestors of C declared.
C3_OnlyOwnFieldsChecked ==
  [][DeclStep =>
       LET t == last'.target
           d == last'.arg[1]
           own == OwnStored(t)
       IN (\A i \in 1..Len(own) : ~Clash(own[i], d)) => last'.err = "none"]_vars

\* C3 (amended): addOwnField(C, d) checks d against the descriptors of C's
\* ancestors too: when a descriptor stored on an ancestor of C has d's
\* classPropertyName, or has isPrimary while d has isPrimary, the call fails
\* with PropertyAlreadyDefined or PrimaryKeyAlreadyDefined and stores
\* nothing.
C3_AncestorFieldsChecked ==
  [][DeclStep =>
       LET t == last'.target
           d == last'.arg[1]
       IN (\E a \in Ancestors(t) : \E i \in 1..Len(OwnStored(a)) :
             \/ OwnStored(a)[i].classPropertyName = d.classPropertyName
             \/ ReadIsPrimary(OwnStored(a)[i]) /\ ReadIsPrimary(d))
            => /\ last'.err \in {"PropertyAlreadyDefined",
                                 "PrimaryKeyAlreadyDefined"}
               /\ meta' = meta]_vars

\* A declaration on a class with no field list of its own has just failed
\* with PropertyAlreadyDefined against a field an ancestor stores.
C3_Witness ==
  /\ last.op \in DeclarationOps
  /\ last.err = "PropertyAlreadyDefined"
  /\ OwnValue(last.target, "Fields") = <<>>
  /\ \E a \in Ancestors(last.target) : \E i \in 1..Len(OwnStored(a)) :
       OwnStored(a)[i].classPropertyName = last.arg[1].classPropertyName

(***************************************************************************)
(* C4                                                                      *)
(***************************************************************************)
\* C4: a lookup on a class yields only what was stored on that very class:
\* get finds a value only where the class has one of its own, and
\* getOwnFields is the list stored on the class itself.
C4_MetadataScopedToClass ==
  \A c \in Classes :
    /\ \A k \in EMetaDataKey : get(meta, k, c) # Null => OwnValue(c, k) # <<>>
    /\ getOwnFields(meta, c) = OwnStored(c)

(***************************************************************************)
(* C5                                                                      *)
(***************************************************************************)
\* Every class declared at least one field and no name was declared twice
\* in the chain.
DisjointDeclarations ==
  /\ \A c \in Classes : Declared(c) # <<>>
  /\ \A i, j \in 1..Len(DeclaredChain("C")) :
       i < j => DeclaredChain("C")[i].classPropertyName
                  # DeclaredChain("C")[j].classPropertyName

\* C5: with disjoint fields declared on A, B and C, getUnpackedFields(C)
\* returns the resolved fields of C, then of B, then of A, each in
\* declaration order and each once.
C5_DerivedFirstOrder ==
  (/\ last.op = "getUnpackedFields"
   /\ last.target = "C"
   /\ DisjointDeclarations)
    => last.ret = Resolved(DeclaredChain("C"))

(***************************************************************************)
(* C6                                                                      *)
(***************************************************************************)
\* C6: a getUnpackedFields call that directly follows a getUnpackedFields
\* call on the same class returns the same list, and no class has its raw
\* list mapped to the resolved one more than once.
C6_ResolutionIdempotent ==
  [][/\ (steps' = steps + 1 /\ last'.op = "getUnpackedFields" /\ last'.repeat)
          => last'.ret = last.ret
     /\ \A c \in Classes : mapCount'[c] <= 1]_vars

\* getUnpackedFields has just been called twice in a row on a class whose
\* fields were mapped once, and returned a non-empty list.
C6_Witness ==
  /\ last.op = "getUnpackedFields"
  /\ last.repeat
  /\ last.ret # <<>>
  /\ mapCount[last.target] = 1

(***************************************************************************)
(* C7                                                                      *)
(***************************************************************************)
\* C7: collectModelInformation fails with ModelNotFound on a class without
\* a collection name, with EmptyFieldsList on a class with a collection
\* name and no resolved field, and with PrimaryKeyNotDefined on a class with
\* a collection name and fields none of which is primary.
C7_IntrospectionErrors ==
  last.op = "collectModelInformation" =>
    LET t == last.target
        fields == getUnpackedFields(meta, t).ret
    IN /\ OwnValue(t, "Collection") = <<>> => last.err = "ModelNotFound"
       /\ (OwnValue(t, "Collection") # <<>> /\ fields = <<>>)
            => last.err = "EmptyFieldsList"
       /\ (OwnValue(t, "Collection") # <<>> /\ fields # <<>>
             /\ Primaries(fields) = {})
            => last.err = "PrimaryKeyNotDefined"

(***************************************************************************)
(* C8                                                                      *)
(***************************************************************************)
\* C8: when collectModelInformation(C) returns, its fields are
\* getUnpackedFields(C), exactly one of them is primary and primaryField is
\* that one; and on a class with a collection name whose chain declared two
\* or more primary-key fields it fails with PrimaryKeyAlreadyDefined.
C8_ExactlyOnePrimary ==
  last.op = "collectModelInformation" =>
    LET t == last.target
    IN /\ last.err = "none" =>
            LET info == last.ret[1]
            IN /\ info.fields = getUnpackedFields(meta, t).ret
               /\ Cardinality(Primaries(info.fields)) = 1
               /\ \E i \in Primaries(info.fields) :
                    info.primaryField = info.fields[i]
       /\ (/\ OwnValue(t, "Collection") # <<>>
           /\ Cardinality(Primaries(Resolved(DeclaredChain(t)))) >= 2)
            => last.err = "PrimaryKeyAlreadyDefined"

(***************************************************************************)
(* C9                                                                      *)
(***************************************************************************)
\* C9 (as claimed): collectModelInformation leaves every piece of per-class
\* metadata as it was.
C9_CollectChangesNothing ==
  [][CollectStep => meta' = meta /\ proto' = proto]_vars

\* C9 (amended): collectModelInformation(C) changes no raw field list,
\* collection name, object kind or applied flag of any class; the only
\* metadata it writes is the resolved-field cache of C or of an ancestor of
\* C, and only where none was stored.
C9_CollectWritesOnlyCache ==
  [][CollectStep =>
       /\ proto' = proto
       /\ \A c \in Classes : \A k \in EMetaDataKey :
            meta'[c][k] # meta[c][k]
              => /\ k = "UnpackedFields"
                 /\ meta[c][k] = <<>>
                 /\ c \in {last'.target} \cup Ancestors(last'.target)]_vars

\* collectModelInformation has just returned for a class whose resolved
\* fields it had to compute.
C9_Witness ==
  /\ last.op = "collectModelInformation"
  /\ last.err = "none"
  /\ mapCount[last.target] = 1
  /\ OwnValue(last.target, "UnpackedFields") # <<>>

(***************************************************************************)
(* C10                                                                     *)
(***************************************************************************)
\* C10: on a class with resolved fields the first applyFields completes,
\* defines one accessor per resolved field on the prototype and sets the
\* applied flag; applyFields on a class whose flag is set changes nothing
\* and raises nothing.
C10_AccessorsInstalledOnce ==
  [][ApplyStep =>
       LET t == last'.target
           fields == getUnpackedFields(meta, t).ret
       IN IF OwnValue(t, "AreFieldsApplied") = <<TRUE>>
            THEN last'.err = "none" /\ meta' = meta /\ proto' = proto
            ELSE (fields # <<>> /\ proto[t] = {})
                   => /\ last'.err = "none"
                      /\ {q.name : q \in proto'[t]}
                           = {fields[i].classPropertyName : i \in 1..Len(fields)}
                      /\ meta'[t]["AreFieldsApplied"] = <<TRUE>>]_vars

(***************************************************************************)
(* C11                                                                     *)
(***************************************************************************)
\* The descriptor class c or one of its ancestors declared for property p.
FieldNamed(c, p) ==
  LET ds == DeclaredChain(c)
  IN {ds[i] : i \in {j \in 1..Len(ds) : ds[j].classPropertyName = p}}

\* C11: once applyFields(C) has returned, on an instance of C that has no
\* own property p, for a field f of C or of an ancestor named p: writing v
\* to the property puts v at key f.dbPropertyName of the instance's internal
\* document and changes nothing else of the instance, and reading the
\* property yields what the document holds at that key.
C11_AccessorsRouteToDocument ==
  [][(/\ obj # <<>>
      /\ obj' # <<>>
      /\ obj[1].cls \in applied
      /\ last'.op \in {"write", "read"}
      /\ steps' = steps)
       => LET o == obj[1]
              p == last'.arg[1]
          IN \A f \in FieldNamed(o.cls, p) :
               o.own[p] = <<>> =>
                 /\ last'.op = "write" =>
                      obj'[1] = [o EXCEPT !.doc[f.dbPropertyName] =
                                            <<last'.arg[2]>>]
                 /\ last'.op = "read" =>
                      last'.ret = o.doc[f.dbPropertyName]]_vars

(***************************************************************************)
(* C12                                                                     *)
(***************************************************************************)
\* C12: a call addOwnField(C, d), made directly or by Field, changes no
\* stored value other than the raw field list stored on C itself: the lists
\* stored on every other class, every class's resolved-field cache,
\* collection name, object kind and applied flag, and every prototype are
\* after the call what they were before it.
C12_OnlyOwnListWritten ==
  [][DeclStep =>
       /\ proto' = proto
       /\ \A c \in Classes : \A k \in EMetaDataKey :
            meta'[c][k] # meta[c][k]
              => c = last'.target /\ k = "Fields"]_vars

\* A descriptor has just been stored on a class that has an ancestor with a
\* stored field list, while some class holds a resolved-field cache.
C12_Witness ==
  /\ last.op \in DeclarationOps
  /\ last.err = "none"
  /\ OwnStored(last.target)[Len(OwnStored(last.target))] = last.arg[1]
  /\ \E a \in Ancestors(last.target) : OwnValue(a, "Fields") # <<>>
  /\ \E c \in Classes : OwnValue(c, "UnpackedFields") # <<>>

(***************************************************************************)
(* C13                                                                     *)
(***************************************************************************)
\* Option k of the option object given to Field, or dflt when no object was
\* given or it leaves the option out.
OptionOr(typeOrOptions, k, dflt) ==
  IF typeOrOptions # <<>> /\ k \in DOMAIN typeOrOptions[1]
    THEN typeOrOptions[1][k] ELSE dflt

\* C13: Field(options) applied to property p of class C makes one
\* addOwnField call, on C, whose descriptor has classPropertyName = p,
\* dbPropertyName = options.name or else p, isNullable = options.nullable
\* or else true, isIdentifier = options.id or else false and defaultValue =
\* options.defaultValue or else undefined.
C13_FieldForwardsOptions ==
  [][(last.op = "draw" /\ last'.op = "Field") =>
       LET c == last.target
           o == last.arg[1]
           p == last.arg[2]
           d == last'.arg[1]
       IN /\ last'.target = c
          /\ Len(calls'[c]) = Len(calls[c]) + 1
          /\ calls'[c][Len(calls'[c])].field = d
          /\ \A e \in Classes \ {c} : calls'[e] = calls[e]
          /\ d.classPropertyName = p
          /\ d.dbPropertyName = OptionOr(o, "name", p)
          /\ d.isNullable = OptionOr(o, "nullable", TRUE)
          /\ d.isIdentifier = OptionOr(o, "id", FALSE)
          /\ d.defaultValue = OptionOr(o, "defaultValue", "undefined")
          /\ last'.err = "none" => OwnStored(c)' = Append(getOwnFields(meta, c), d)]_vars

\* A decorator given a storage name, nullable: false, id: true and a default
\* value has run and its descriptor was stored.
C13_Witness ==
  /\ last.op = "Field"
  /\ last.err = "none"
  /\ last.arg[1].dbPropertyName # last.arg[1].classPropertyName
  /\ ~last.arg[1].isNullable
  /\ last.arg[1].isIdentifier
  /\ last.arg[1].defaultValue = "anon"
  /\ OwnStored(last.target)[Len(OwnStored(last.target))] = last.arg[1]

(***************************************************************************)
(* C14                                                                     *)
(***************************************************************************)
\* C14: in every reachable state and for every class C,
\* getUnpackedOwnFields(C) holds one resolved descriptor per raw descriptor
\* of getOwnFields(C), in the same order and with the same
\* classPropertyName.
C14_CacheNeverStale ==
  \A c \in Classes :
    LET unpacked == getUnpackedOwnFields(meta, c).ret
        own == getOwnFields(meta, c)
    IN /\ Len(unpacked) = Len(own)
       /\ \A i \in 1..Len(own) :
            unpacked[i].classPropertyName = own[i].classPropertyName

C16_LookupReturnsStored ==
  /\ \A c \in Classes : \A k \in EMetaDataKey :
       OwnValue(c, k) # <<>> => get(meta, k, c) = OwnValue(c, k)
  /\ (last.op = "collectModelInformation"
        /\ OwnValue(last.target, "Collection") # <<>>)
       => /\ last.err # "ModelNotFound"
          /\ last.err = "none"
               => last.ret[1].collection = OwnValue(last.target, "Collection")[1]

(***************************************************************************)
(* C17                                                                     *)
(***************************************************************************)
\* C17: for every class C, isModel(C) and isDataMapper(C) are not both
\* true; isModel(C) holds exactly when the kind stored on C, which is what
\* the latest of defineModel and defineDataMapper called on C wrote, is
\* 'model', and isDataMapper(C) exactly when it is 'data-mapper' (both are
\* false when neither was called on C); and a class for which isDataMapper
\* holds has no collection name.
C17_KindFollowsDeclaration ==
  \A c \in Classes :
    /\ ~(isModel(meta, c) /\ isDataMapper(meta, c))
    /\ isModel(meta, c) <=> OwnValue(c, "ObjectType") = <<"model">>
    /\ isDataMapper(meta, c) <=> OwnValue(c, "ObjectType") = <<"data-mapper">>
    /\ isDataMapper(meta, c) => get(meta, "Collection", c) = Null

(***************************************************************************)
(* C18                                                                     *)
(***************************************************************************)
\* C18: a call addOwnField(C, d) that fails with PropertyAlreadyDefined or
\* PrimaryKeyAlreadyDefined leaves every stored value of every class and
\* every prototype as it was, and the same call made again right after a
\* failed one fails with the same error.
C18_FailedCallStoresNothing ==
  [][DeclStep =>
       /\ last'.err # "none"
            => /\ last'.err \in {"PropertyAlreadyDefined",
                                 "PrimaryKeyAlreadyDefined"}
               /\ meta' = meta
               /\ proto' = proto
       /\ (last'.repeat /\ last.err # "none") => last'.err = last.err]_vars

\* The same declaration has just failed for the second time in a row, and
\* its descriptor is not in the stored list of its class.
C18_Witness ==
  /\ last.op \in DeclarationOps
  /\ last.repeat
  /\ last.err \in {"PropertyAlreadyDefined", "PrimaryKeyAlreadyDefined"}
  /\ Len(calls[last.target]) >= 2
  /\ calls[last.target][Len(calls[last.target]) - 1].err = last.err
  /\ \A i \in 1..Len(OwnStored(last.target)) :
       OwnStored(last.target)[i] # last.arg[1]

====
